---- MODULE Spec2Model ----
(***************************************************************************)
(* rat-event: the mouse-gesture recognizer (util.rs, MouseFlags) and the   *)
(* event-consumption algebra (lib.rs, ConsumedEvent / Outcome).            *)
(***************************************************************************)
EXTENDS Integers, Sequences, FiniteSets, TLC

VARIABLES
    flags,      \* MouseFlags: [click, clack, drag]
    area,       \* the Rect passed to drag2 / doubleclick2
    filter,     \* the KeyModifiers filter passed to drag2 / doubleclick2
    last,       \* history: the last recognizer call, its event class, the flags before it, its return value
    ctl,        \* history: the latest drag-controlling event seen by drag2
    log,        \* history: the doubleclick2 calls fed by the scenario harness, in order
    dc,         \* history: the double-click signals and the click events seen by doubleclick2
    solo,       \* history: a MouseFlags given the drag2 calls alone, and one given the doubleclick2 calls alone
    opnd,       \* the handler results an algebra call is applied to
    cnt,        \* side-effect counter: how many handler closures have been evaluated
    res,        \* history: the last algebra call and what it returned
    hit         \* the arguments of a hit-test call, and what the last one returned

vars == <<flags, area, filter, last, ctl, log, dc, solo, opnd, cnt, res, hit>>

mouseVars == <<flags, area, filter, last, ctl, log, dc, solo>>
algVars == <<opnd, cnt, res>>

----------------------------------------------------------------------------
(* Bounds of the model.                                                    *)

\* columns and rows of mouse events range over 0..MaxCoord
MaxCoord == 2
\* the scenario harness feeds at most MaxLog events
MaxLog == 4

----------------------------------------------------------------------------
(* Input events (crossterm MouseEvent) and geometry (ratatui Rect).        *)

MouseEventKinds ==
    {"DownLeft", "DownRight", "UpLeft", "UpRight", "DragLeft", "DragRight", "Moved", "ScrollDown"}

\* KeyModifiers is a bit set; values are compared with ==
KeyModifiers == {{}, {"SHIFT"}, {"SHIFT", "CONTROL"}}

Coords == 0..MaxCoord

MouseEvents ==
    [kind : MouseEventKinds, column : Coords, row : Coords, modifiers : KeyModifiers]

Rect(x, y, width, height) == [x |-> x, y |-> y, width |-> width, height |-> height]

Areas == {Rect(1, 1, 1, 1), Rect(0, 1, 2, 1)}

\* Rect::contains: the half-open interval [x, x+width) x [y, y+height)
Contains(a, column, row) ==
    /\ column >= a.x
    /\ column < a.x + a.width
    /\ row >= a.y
    /\ row < a.y + a.height

----------------------------------------------------------------------------
(* MouseFlags.                                                             *)

MouseFlags == [click : BOOLEAN, clack : BOOLEAN, drag : BOOLEAN]

\* #[derive(Default)]: all three cells false
DefaultFlags == [click |-> FALSE, clack |-> FALSE, drag |-> FALSE]

\* drag2 reporting a drag only while the pointer is inside the area
drag2_InsideOnly(self, a, event, f) ==
    IF event.kind = "DownLeft" /\ event.modifiers = f
    THEN [flags |-> [self EXCEPT !.drag = Contains(a, event.column, event.row)], ret |-> FALSE]
    ELSE IF event.kind = "DragLeft" /\ event.modifiers = f
    THEN [flags |-> self, ret |-> self.drag /\ Contains(a, event.column, event.row)]
    ELSE IF event.kind \in {"UpLeft", "Moved"}
    THEN [flags |-> [self EXCEPT !.drag = FALSE], ret |-> FALSE]
    ELSE [flags |-> self, ret |-> FALSE]

\* drag2 with the filter moved into the arm: any other Left-Down disarms
drag2_MismatchDisarms(self, a, event, f) ==
    IF event.kind = "DownLeft"
    THEN [flags |-> [self EXCEPT !.drag = (event.modifiers = f
                                             /\ Contains(a, event.column, event.row))],
          ret |-> FALSE]
    ELSE IF event.kind = "DragLeft" /\ event.modifiers = f
    THEN [flags |-> self, ret |-> self.drag]
    ELSE IF event.kind \in {"UpLeft", "Moved"}
    THEN [flags |-> [self EXCEPT !.drag = FALSE], ret |-> FALSE]
    ELSE [flags |-> self, ret |-> FALSE]

\* drag2 with the modifier guard of the Left-Down arm left out
drag2_DownUnfiltered(self, a, event, f) ==
    IF event.kind = "DownLeft"
    THEN [flags |-> [self EXCEPT !.drag = Contains(a, event.column, event.row)], ret |-> FALSE]
    ELSE IF event.kind = "DragLeft" /\ event.modifiers = f
    THEN [flags |-> self, ret |-> self.drag]
    ELSE IF event.kind \in {"UpLeft", "Moved"}
    THEN [flags |-> [self EXCEPT !.drag = FALSE], ret |-> FALSE]
    ELSE [flags |-> self, ret |-> FALSE]

\* drag2 with the modifier guard also on the Left-Up / Moved arm
drag2_UpFiltered(self, a, event, f) ==
    IF event.kind = "DownLeft" /\ event.modifiers = f
    THEN IF Contains(a, event.column, event.row)
         THEN [flags |-> [self EXCEPT !.drag = TRUE], ret |-> FALSE]
         ELSE [flags |-> [self EXCEPT !.drag = FALSE], ret |-> FALSE]
    ELSE IF event.kind = "DragLeft" /\ event.modifiers = f
    THEN [flags |-> self, ret |-> self.drag]
    ELSE IF event.kind \in {"UpLeft", "Moved"} /\ event.modifiers = f
    THEN [flags |-> [self EXCEPT !.drag = FALSE], ret |-> FALSE]
    ELSE [flags |-> self, ret |-> FALSE]

\* drag2 whose Left-Up / Moved arm resets all three flags
drag2_UpResetsAll(self, a, event, f) ==
    IF event.kind = "DownLeft" /\ event.modifiers = f
    THEN IF Contains(a, event.column, event.row)
         THEN [flags |-> [self EXCEPT !.drag = TRUE], ret |-> FALSE]
         ELSE [flags |-> [self EXCEPT !.drag = FALSE], ret |-> FALSE]
    ELSE IF event.kind = "DragLeft" /\ event.modifiers = f
    THEN [flags |-> self, ret |-> self.drag]
    ELSE IF event.kind \in {"UpLeft", "Moved"}
    THEN [flags |-> DefaultFlags, ret |-> FALSE]
    ELSE [flags |-> self, ret |-> FALSE]

\* MouseFlags::drag2: the flags after the call and the returned bool
drag2(self, a, event, f) ==
    IF event.kind = "DownLeft" /\ event.modifiers = f
    THEN IF Contains(a, event.column, event.row)
         THEN [flags |-> [self EXCEPT !.drag = TRUE], ret |-> FALSE]
         ELSE [flags |-> [self EXCEPT !.drag = FALSE], ret |-> FALSE]
    ELSE IF event.kind = "DragLeft" /\ event.modifiers = f
    THEN IF self.drag
         THEN [flags |-> self, ret |-> TRUE]
         ELSE [flags |-> self, ret |-> FALSE]
    ELSE IF event.kind \in {"UpLeft", "Moved"}
    THEN [flags |-> [self EXCEPT !.drag = FALSE], ret |-> FALSE]
    ELSE [flags |-> self, ret |-> FALSE]

\* doubleclick2 whose outside arms reset click and forget clack
doubleclick2_ClackKept(self, a, event, f) ==
    IF event.kind = "DownLeft" /\ event.modifiers = f
    THEN IF Contains(a, event.column, event.row)
         THEN [flags |-> [self EXCEPT !.click = TRUE, !.clack = FALSE], ret |-> FALSE]
         ELSE [flags |-> [self EXCEPT !.click = FALSE], ret |-> FALSE]
    ELSE IF event.kind = "UpLeft" /\ event.modifiers = f
    THEN IF Contains(a, event.column, event.row)
         THEN IF self.click
              THEN IF ~self.clack
                   THEN [flags |-> [self EXCEPT !.clack = TRUE], ret |-> FALSE]
                   ELSE [flags |-> [self EXCEPT !.click = FALSE, !.clack = FALSE], ret |-> TRUE]
              ELSE [flags |-> self, ret |-> FALSE]
         ELSE [flags |-> [self EXCEPT !.click = FALSE], ret |-> FALSE]
    ELSE [flags |-> self, ret |-> FALSE]

\* doubleclick2 without the else branch of the Left-Down arm: a down outside is ignored
doubleclick2_OutsideDownIgnored(self, a, event, f) ==
    IF event.kind = "DownLeft" /\ event.modifiers = f
    THEN IF Contains(a, event.column, event.row)
         THEN [flags |-> [self EXCEPT !.click = TRUE, !.clack = FALSE], ret |-> FALSE]
         ELSE [flags |-> self, ret |-> FALSE]
    ELSE IF event.kind = "UpLeft" /\ event.modifiers = f
    THEN IF Contains(a, event.column, event.row)
         THEN IF self.click
              THEN IF ~self.clack
                   THEN [flags |-> [self EXCEPT !.clack = TRUE], ret |-> FALSE]
                   ELSE [flags |-> [self EXCEPT !.click = FALSE, !.clack = FALSE], ret |-> TRUE]
              ELSE [flags |-> self, ret |-> FALSE]
         ELSE [flags |-> [self EXCEPT !.click = FALSE, !.clack = FALSE], ret |-> FALSE]
    ELSE [flags |-> self, ret |-> FALSE]

\* doubleclick2 reporting the double click on the second down already
doubleclick2_FireOnDown(self, a, event, f) ==
    IF event.kind = "DownLeft" /\ event.modifiers = f
    THEN IF Contains(a, event.column, event.row)
         THEN IF self.click /\ self.clack
              THEN [flags |-> [self EXCEPT !.click = FALSE, !.clack = FALSE], ret |-> TRUE]
              ELSE [flags |-> [self EXCEPT !.click = TRUE, !.clack = FALSE], ret |-> FALSE]
         ELSE [flags |-> [self EXCEPT !.click = FALSE, !.clack = FALSE], ret |-> FALSE]
    ELSE IF event.kind = "UpLeft" /\ event.modifiers = f
    THEN IF Contains(a, event.column, event.row)
         THEN IF self.click
              THEN IF ~self.clack
                   THEN [flags |-> [self EXCEPT !.clack = TRUE], ret |-> FALSE]
                   ELSE [flags |-> [self EXCEPT !.click = FALSE, !.clack = FALSE], ret |-> TRUE]
              ELSE [flags |-> self, ret |-> FALSE]
         ELSE [flags |-> [self EXCEPT !.click = FALSE, !.clack = FALSE], ret |-> FALSE]
    ELSE [flags |-> self, ret |-> FALSE]

\* doubleclick2 without the else branch of the Left-Up arm: an up outside is ignored
doubleclick2_OutsideUpIgnored(self, a, event, f) ==
    IF event.kind = "DownLeft" /\ event.modifiers = f
    THEN IF Contains(a, event.column, event.row)
         THEN [flags |-> [self EXCEPT !.click = TRUE, !.clack = FALSE], ret |-> FALSE]
         ELSE [flags |-> [self EXCEPT !.click = FALSE, !.clack = FALSE], ret |-> FALSE]
    ELSE IF event.kind = "UpLeft" /\ event.modifiers = f
    THEN IF Contains(a, event.column, event.row)
         THEN IF self.click
              THEN IF ~self.clack
                   THEN [flags |-> [self EXCEPT !.clack = TRUE], ret |-> FALSE]
                   ELSE [flags |-> [self EXCEPT !.click = FALSE, !.clack = FALSE], ret |-> TRUE]
              ELSE [flags |-> self, ret |-> FALSE]
         ELSE [flags |-> self, ret |-> FALSE]
    ELSE [flags |-> self, ret |-> FALSE]

\* doubleclick2 that clears only clack when it reports the double click
doubleclick2_FireKeepsClick(self, a, event, f) ==
    IF event.kind = "DownLeft" /\ event.modifiers = f
    THEN IF Contains(a, event.column, event.row)
         THEN [flags |-> [self EXCEPT !.click = TRUE, !.clack = FALSE], ret |-> FALSE]
         ELSE [flags |-> [self EXCEPT !.click = FALSE, !.clack = FALSE], ret |-> FALSE]
    ELSE IF event.kind = "UpLeft" /\ event.modifiers = f
    THEN IF Contains(a, event.column, event.row)
         THEN IF self.click
              THEN IF ~self.clack
                   THEN [flags |-> [self EXCEPT !.clack = TRUE], ret |-> FALSE]
                   ELSE [flags |-> [self EXCEPT !.clack = FALSE], ret |-> TRUE]
              ELSE [flags |-> self, ret |-> FALSE]
         ELSE [flags |-> [self EXCEPT !.click = FALSE, !.clack = FALSE], ret |-> FALSE]
    ELSE [flags |-> self, ret |-> FALSE]

\* doubleclick2 whose Left-Down inside sets click and leaves clack alone
doubleclick2_DownKeepsClack(self, a, event, f) ==
    IF event.kind = "DownLeft" /\ event.modifiers = f
    THEN IF Contains(a, event.column, event.row)
         THEN [flags |-> [self EXCEPT !.click = TRUE], ret |-> FALSE]
         ELSE [flags |-> [self EXCEPT !.click = FALSE, !.clack = FALSE], ret |-> FALSE]
    ELSE IF event.kind = "UpLeft" /\ event.modifiers = f
    THEN IF Contains(a, event.column, event.row)
         THEN IF self.click
              THEN IF ~self.clack
                   THEN [flags |-> [self EXCEPT !.clack = TRUE], ret |-> FALSE]
                   ELSE [flags |-> [self EXCEPT !.click = FALSE, !.clack = FALSE], ret |-> TRUE]
              ELSE [flags |-> self, ret |-> FALSE]
         ELSE [flags |-> [self EXCEPT !.click = FALSE, !.clack = FALSE], ret |-> FALSE]
    ELSE [flags |-> self, ret |-> FALSE]

\* MouseFlags::doubleclick2: the flags after the call and the returned bool
doubleclick2(self, a, event, f) ==
    IF event.kind = "DownLeft" /\ event.modifiers = f
    THEN IF Contains(a, event.column, event.row)
         THEN [flags |-> [self EXCEPT !.click = TRUE, !.clack = FALSE], ret |-> FALSE]
         ELSE [flags |-> [self EXCEPT !.click = FALSE, !.clack = FALSE], ret |-> FALSE]
    ELSE IF event.kind = "UpLeft" /\ event.modifiers = f
    THEN IF Contains(a, event.column, event.row)
         THEN IF self.click
              THEN IF ~self.clack
                   THEN [flags |-> [self EXCEPT !.clack = TRUE], ret |-> FALSE]
                   ELSE [flags |-> [self EXCEPT !.click = FALSE, !.clack = FALSE], ret |-> TRUE]
              ELSE [flags |-> self, ret |-> FALSE]
         ELSE [flags |-> [self EXCEPT !.click = FALSE, !.clack = FALSE], ret |-> FALSE]
    ELSE [flags |-> self, ret |-> FALSE]

----------------------------------------------------------------------------
(* History variables of the recognizer.                                    *)

NoCall ==
    [op |-> "none", kind |-> "none", inside |-> FALSE, match |-> FALSE,
     pre |-> DefaultFlags, ret |-> FALSE]

\* what a call looked like: the event's kind, whether it lay inside the
\* area, whether its modifiers equalled the filter, the flags before, the result
CallRecord(op, self, a, event, f, ret) ==
    [op |-> op, kind |-> event.kind,
     inside |-> Contains(a, event.column, event.row),
     match |-> (event.modifiers = f),
     pre |-> self, ret |-> ret]

\* the drag-controlling events: a filter-matching Left-Down, any Left-Up, any Moved
DragControl(a, event, f, old) ==
    IF event.kind = "DownLeft" /\ event.modifiers = f
    THEN IF Contains(a, event.column, event.row) THEN "DownIn" ELSE "DownOut"
    ELSE IF event.kind = "UpLeft" THEN "Up"
    ELSE IF event.kind = "Moved" THEN "Moved"
    ELSE old

\* the class of an event as the click scenarios name it
ClickClass(a, event, f) ==
    IF event.kind = "DownLeft" /\ event.modifiers = f
    THEN IF Contains(a, event.column, event.row) THEN "DownIn" ELSE "DownOut"
    ELSE IF event.kind = "UpLeft" /\ event.modifiers = f
    THEN IF Contains(a, event.column, event.row) THEN "UpIn" ELSE "UpOut"
    ELSE "Other"

NoClickHist == [sig |-> "none", cls |-> "none"]

\* what doubleclick2 has seen: sig is "fired" from a double-click signal until
\* the next filter-matching Left-Down inside the area, which makes it "down";
\* cls is the class of the latest filter-matching Left-Down or Left-Up
ClickHist(old, a, event, f, ret) ==
    LET c == ClickClass(a, event, f) IN
    [sig |-> IF ret THEN "fired"
             ELSE IF c = "DownIn" /\ old.sig = "fired" THEN "down"
             ELSE old.sig,
     cls |-> IF c = "Other" THEN old.cls ELSE c]

NoSolo == [drag |-> DefaultFlags, click |-> DefaultFlags, ret |-> FALSE]

\* the same drag2 call made on a MouseFlags that sees no doubleclick2 call
SoloDrag(old, a, event, f) ==
    LET r == drag2(old.drag, a, event, f) IN
    [old EXCEPT !.drag = r.flags, !.ret = r.ret]

\* the same doubleclick2 call made on a MouseFlags that sees no drag2 call
SoloClick(old, a, event, f) ==
    LET r == doubleclick2(old.click, a, event, f) IN
    [old EXCEPT !.click = r.flags, !.ret = r.ret]

----------------------------------------------------------------------------
(* The recognizer as a state machine.                                      *)

\* no value, and no algebra call made yet
NoVal == [tag |-> "none", v |-> "none", e |-> "none"]

NoAlgCall ==
    [op |-> "none", self |-> NoVal, f |-> NoVal, ret |-> NoVal, alt |-> NoVal,
     bool |-> FALSE, ord |-> "none", cnt0 |-> 0, order |-> <<>>]

\* no hit-test call made
NoHit ==
    [op |-> "none", encompassing |-> Rect(0, 0, 0, 0), areas |-> <<>>, pos |-> 0,
     ret |-> [ok |-> FALSE, val |-> 0]]

\* the algebra and the hit tests are not exercised while the recognizer runs
AlgIdle ==
    /\ opnd = <<>>
    /\ cnt = 0
    /\ res = NoAlgCall
    /\ hit = NoHit

Init ==
    /\ flags = DefaultFlags
    /\ area \in Areas
    /\ filter \in KeyModifiers
    /\ last = NoCall
    /\ ctl = "none"
    /\ log = <<>>
    /\ dc = NoClickHist
    /\ solo = NoSolo
    /\ AlgIdle

\* a widget calls self.mouse.drag2(area, event, filter)
Drag2Call(event) ==
    LET r == drag2(flags, area, event, filter) IN
    /\ flags' = r.flags
    /\ last' = CallRecord("drag2", flags, area, event, filter, r.ret)
    /\ ctl' = DragControl(area, event, filter, ctl)
    /\ solo' = SoloDrag(solo, area, event, filter)
    /\ UNCHANGED <<area, filter, log, dc>>
    /\ UNCHANGED <<algVars, hit>>

\* a widget calls self.mouse.doubleclick2(area, event, filter)
DoubleClick2Call(event) ==
    LET r == doubleclick2(flags, area, event, filter) IN
    /\ flags' = r.flags
    /\ last' = CallRecord("doubleclick2", flags, area, event, filter, r.ret)
    /\ dc' = ClickHist(dc, area, event, filter, r.ret)
    /\ solo' = SoloClick(solo, area, event, filter)
    /\ UNCHANGED <<area, filter, ctl, log>>
    /\ UNCHANGED <<algVars, hit>>

\* the caller passes another area or filter to the next call
Reconfigure(a, f) ==
    /\ area' = a
    /\ filter' = f
    /\ UNCHANGED <<flags, last, ctl, log, dc, solo>>
    /\ UNCHANGED <<algVars, hit>>

\* the scenario harness: feed doubleclick2 one event and record what it returned
FeedDoubleClick(event) ==
    LET r == doubleclick2(flags, area, event, filter) IN
    /\ Len(log) < MaxLog
    /\ flags' = r.flags
    /\ last' = CallRecord("doubleclick2", flags, area, event, filter, r.ret)
    /\ log' = Append(log, [class |-> ClickClass(area, event, filter), ret |-> r.ret,
                           post |-> r.flags])
    /\ dc' = ClickHist(dc, area, event, filter, r.ret)
    /\ solo' = SoloClick(solo, area, event, filter)
    /\ UNCHANGED <<area, filter, ctl>>
    /\ UNCHANGED <<algVars, hit>>

Next ==
    \/ \E event \in MouseEvents : Drag2Call(event)
    \/ \E event \in MouseEvents : DoubleClick2Call(event)

\* drag2 and doubleclick2 called in any order with a fixed area and filter
Spec == Init /\ [][Next]_vars

NextAny ==
    \/ Next
    \/ \E a \in Areas, f \in KeyModifiers : Reconfigure(a, f)

\* as Spec, with the area and the filter free to change between calls
SpecAny == Init /\ [][NextAny]_vars

NextFeed == \E event \in MouseEvents : FeedDoubleClick(event)

\* a fresh MouseFlags fed a sequence of events through doubleclick2
SpecFeed == Init /\ [][NextFeed]_vars

----------------------------------------------------------------------------
(* The event-consumption algebra: Outcome, ConsumedEvent, Result.          *)

\* handler chains of the model hold at most MaxOps handlers
MaxOps == 3
\* the algebra calls stop once MaxEvals closures have been evaluated
MaxEvals == 3

\* enum Outcome, in declaration order
OutcomeVariants == <<"NotUsed", "Unchanged", "Changed">>

\* the error values E of a Result<Outcome, E>
Errors == {"E1", "E2"}

\* values of the result types: an Outcome, or a Result<Outcome, E>
OutcomeOf(o) == [tag |-> "Outcome", v |-> o, e |-> "none"]
Ok(o) == [tag |-> "Ok", v |-> o, e |-> "none"]
Err(e) == [tag |-> "Err", v |-> "none", e |-> e]

Outcome == {OutcomeOf(OutcomeVariants[i]) : i \in 1..Len(OutcomeVariants)}
Results ==
    {Ok(OutcomeVariants[i]) : i \in 1..Len(OutcomeVariants)} \cup {Err(e) : e \in Errors}

\* impl ConsumedEvent for Outcome: is_consumed
Outcome_is_consumed(o) == ~(o = "NotUsed")

\* is_consumed of a Result that takes a failure for "not consumed"
Result_is_consumed_ErrNotConsumed(self) ==
    IF self.tag = "Ok" THEN Outcome_is_consumed(self.v) ELSE FALSE

\* impl ConsumedEvent for Result<V, E>: is_consumed
Result_is_consumed(self) ==
    IF self.tag = "Ok" THEN Outcome_is_consumed(self.v) ELSE TRUE

\* ConsumedEvent::is_consumed, dispatched on the receiver's type
is_consumed(self) ==
    IF self.tag = "Outcome" THEN Outcome_is_consumed(self.v) ELSE Result_is_consumed(self)

\* calling the closure f: it yields its value and bumps the side-effect counter
CallClosure(f, c) == [ret |-> f, cnt |-> c + 1]

\* or_else evaluating its closure before it looks at the receiver
or_else_Eager(self, f, c) ==
    LET r == CallClosure(f, c) IN
    IF is_consumed(self) THEN [ret |-> self, cnt |-> r.cnt] ELSE r

\* ConsumedEvent::or_else: the returned value and the counter afterwards
or_else(self, f, c) ==
    IF is_consumed(self)
    THEN [ret |-> self, cnt |-> c]
    ELSE CallClosure(f, c)

\* or_else!(x, e): e is evaluated and stored in x only if x is not consumed
or_else_macro(x, e, c) ==
    IF ~is_consumed(x)
    THEN CallClosure(e, c)
    ELSE [ret |-> x, cnt |-> c]

\* r = h1(); or_else!(r, h2()); ... or_else!(r, hn()): the final r, the
\* counter, and the handlers invoked, in order
RECURSIVE OrElseChain(_, _, _)
OrElseChain(hs, n, c) ==
    IF n = 1
    THEN LET r == CallClosure(hs[1], c) IN
         [ret |-> r.ret, cnt |-> r.cnt, order |-> <<1>>]
    ELSE LET a == OrElseChain(hs, n - 1, c)
             r == or_else_macro(a.ret, hs[n], a.cnt)
         IN [ret |-> r.ret, cnt |-> r.cnt,
             order |-> IF r.cnt > a.cnt THEN Append(a.order, n) ELSE a.order]

\* h1().or_else(|| h2()) ... .or_else(|| hn()): the result, the counter, and
\* the handlers invoked, in order
RECURSIVE OrElseMethodChain(_, _, _)
OrElseMethodChain(hs, n, c) ==
    IF n = 1
    THEN LET r == CallClosure(hs[1], c) IN
         [ret |-> r.ret, cnt |-> r.cnt, order |-> <<1>>]
    ELSE LET a == OrElseMethodChain(hs, n - 1, c)
             r == or_else(a.ret, hs[n], a.cnt)
         IN [ret |-> r.ret, cnt |-> r.cnt,
             order |-> IF r.cnt > a.cnt THEN Append(a.order, n) ELSE a.order]

\* From<T> for T, the conversion r.into() to the handler's own result type
into(r) == r

\* flow! with its test turned round: it returns what is not consumed
flow_Inverted(r) ==
    IF ~is_consumed(r)
    THEN [returned |-> TRUE, ret |-> into(r)]
    ELSE [returned |-> FALSE, ret |-> NoVal]

\* flow!(x) with x already evaluated to r: return r.into() if r is consumed
flow(r) ==
    IF is_consumed(r)
    THEN [returned |-> TRUE, ret |-> into(r)]
    ELSE [returned |-> FALSE, ret |-> NoVal]

\* flow!(hi()); ... flow!(hn()); from handler i on: whether the function
\* returned early, with what, the counter, and the handlers invoked
RECURSIVE FlowChain(_, _, _, _)
FlowChain(hs, i, c, order) ==
    IF i > Len(hs)
    THEN [returned |-> FALSE, ret |-> NoVal, cnt |-> c, order |-> order]
    ELSE LET r == CallClosure(hs[i], c)
             x == flow(r.ret)
         IN IF x.returned
            THEN [returned |-> TRUE, ret |-> x.ret, cnt |-> r.cnt,
                  order |-> Append(order, i)]
            ELSE FlowChain(hs, i + 1, r.cnt, Append(order, i))

\* flow_ok!(x) with x already evaluated to r: return Ok(r.into()) if r is consumed
flow_ok(r) ==
    IF is_consumed(r)
    THEN [returned |-> TRUE, ret |-> Ok(into(r).v)]
    ELSE [returned |-> FALSE, ret |-> NoVal]

\* flow_ok!(hi()); ... flow_ok!(hn()); from handler i on
RECURSIVE FlowOkChain(_, _, _, _)
FlowOkChain(hs, i, c, order) ==
    IF i > Len(hs)
    THEN [returned |-> FALSE, ret |-> NoVal, cnt |-> c, order |-> order]
    ELSE LET r == CallClosure(hs[i], c)
             x == flow_ok(r.ret)
         IN IF x.returned
            THEN [returned |-> TRUE, ret |-> x.ret, cnt |-> r.cnt,
                  order |-> Append(order, i)]
            ELSE FlowOkChain(hs, i + 1, r.cnt, Append(order, i))

\* #[derive(PartialOrd, Ord)] on Outcome: variants compare by declaration order
Discriminant(o) == CHOOSE i \in 1..Len(OutcomeVariants) : OutcomeVariants[i] = o.v

cmp(a, b) ==
    IF Discriminant(a) < Discriminant(b) THEN "Less"
    ELSE IF Discriminant(a) = Discriminant(b) THEN "Equal"
    ELSE "Greater"

\* std::cmp::max: the second argument unless the first is greater
max(v1, v2) == IF cmp(v1, v2) = "Greater" THEN v1 ELSE v2

\* flow!(x, consider f) that returns the handler's outcome and drops f
flow_consider_FocusDropped(r, f) ==
    IF is_consumed(r)
    THEN [returned |-> TRUE, ret |-> into(r)]
    ELSE [returned |-> FALSE, ret |-> NoVal]

\* flow!(x, consider f) with x evaluated to r: return max(r.into(), f) if r
\* is consumed
flow_consider(r, f) ==
    IF is_consumed(r)
    THEN [returned |-> TRUE, ret |-> max(into(r), f)]
    ELSE [returned |-> FALSE, ret |-> NoVal]

\* flow_ok!(x, consider f): return Ok(max(r.into(), f)) if r is consumed
flow_ok_consider(r, f) ==
    IF is_consumed(r)
    THEN [returned |-> TRUE, ret |-> Ok(max(into(r), f).v)]
    ELSE [returned |-> FALSE, ret |-> NoVal]

\* then skipping its closure when the receiver is already Changed
then_ShortCircuit(self, f, c) ==
    IF self.v = "Changed"
    THEN [ret |-> self, cnt |-> c]
    ELSE LET r == CallClosure(f, c) IN [ret |-> max(self, r.ret), cnt |-> r.cnt]

\* then returning the receiver whenever it is consumed, as or_else does
then_KeepConsumed(self, f, c) ==
    LET r == CallClosure(f, c) IN
    [ret |-> IF is_consumed(self) THEN self ELSE r.ret, cnt |-> r.cnt]

\* then taking the lower of the two
then_Min(self, f, c) ==
    LET r == CallClosure(f, c) IN
    [ret |-> IF cmp(self, r.ret) = "Greater" THEN r.ret ELSE self, cnt |-> r.cnt]

\* ConsumedEvent::then: max(self, f())
then(self, f, c) ==
    LET r == CallClosure(f, c) IN
    [ret |-> max(self, r.ret), cnt |-> r.cnt]

\* ((h1.then(h2)).then(h3))... : the handler results accumulated from the left
RECURSIVE ThenLeft(_, _, _)
ThenLeft(hs, n, c) ==
    IF n = 1 THEN [ret |-> hs[1], cnt |-> c]
    ELSE LET a == ThenLeft(hs, n - 1, c) IN then(a.ret, hs[n], a.cnt)

\* h1.then(h2.then(h3...)) : the same results grouped from the right
RECURSIVE ThenRight(_, _, _)
ThenRight(hs, i, c) ==
    IF i = Len(hs) THEN [ret |-> hs[i], cnt |-> c]
    ELSE LET b == ThenRight(hs, i + 1, c) IN then(hs[i], b.ret, b.cnt)

\* sequences of n values of S
SeqsOf(S, n) == [1..n -> S]

InitAlg ==
    /\ flags = DefaultFlags
    /\ area = Rect(1, 1, 1, 1)
    /\ filter = {}
    /\ last = NoCall
    /\ ctl = "none"
    /\ log = <<>>
    /\ dc = NoClickHist
    /\ solo = NoSolo
    /\ \E n \in 2..MaxOps : opnd \in SeqsOf(Outcome, n) \cup SeqsOf(Results, n)
    /\ cnt = 0
    /\ res = NoAlgCall
    /\ hit = NoHit

\* opnd[1].is_consumed()
IsConsumedCall ==
    /\ res' = [NoAlgCall EXCEPT !.op = "is_consumed", !.self = opnd[1],
                                !.bool = is_consumed(opnd[1]), !.cnt0 = cnt]
    /\ UNCHANGED <<opnd, cnt>>
    /\ UNCHANGED <<mouseVars, hit>>

\* opnd[1].or_else(|| opnd[2])
OrElseCall ==
    LET r == or_else(opnd[1], opnd[2], cnt) IN
    /\ cnt < MaxEvals
    /\ res' = [NoAlgCall EXCEPT !.op = "or_else", !.self = opnd[1], !.f = opnd[2],
                                !.ret = r.ret, !.cnt0 = cnt]
    /\ cnt' = r.cnt
    /\ UNCHANGED opnd
    /\ UNCHANGED <<mouseVars, hit>>

\* Ord::cmp(&opnd[1], &opnd[2]) on Outcomes
CmpCall ==
    /\ opnd[1].tag = "Outcome"
    /\ res' = [NoAlgCall EXCEPT !.op = "cmp", !.self = opnd[1], !.f = opnd[2],
                                !.ord = cmp(opnd[1], opnd[2]), !.cnt0 = cnt]
    /\ UNCHANGED <<opnd, cnt>>
    /\ UNCHANGED <<mouseVars, hit>>

\* opnd[1].then(|| opnd[2]) on Outcomes
ThenCall ==
    LET r == then(opnd[1], opnd[2], cnt) IN
    /\ opnd[1].tag = "Outcome"
    /\ cnt < MaxEvals
    /\ res' = [NoAlgCall EXCEPT !.op = "then", !.self = opnd[1], !.f = opnd[2],
                                !.ret = r.ret, !.cnt0 = cnt]
    /\ cnt' = r.cnt
    /\ UNCHANGED opnd
    /\ UNCHANGED <<mouseVars, hit>>

\* all of opnd accumulated with then, once grouped from the left and once
\* from the right
ThenAllCall ==
    LET l == ThenLeft(opnd, Len(opnd), cnt)
        r == ThenRight(opnd, 1, l.cnt)
    IN
    /\ opnd[1].tag = "Outcome"
    /\ cnt < MaxEvals
    /\ res' = [NoAlgCall EXCEPT !.op = "then_all", !.self = opnd[1],
                                !.ret = l.ret, !.alt = r.ret, !.cnt0 = cnt]
    /\ cnt' = r.cnt
    /\ UNCHANGED opnd
    /\ UNCHANGED <<mouseVars, hit>>

\* the handlers of opnd tried in order with the or_else! macro
OrElseChainCall ==
    LET r == OrElseChain(opnd, Len(opnd), cnt) IN
    /\ cnt < MaxEvals
    /\ res' = [NoAlgCall EXCEPT !.op = "or_else_chain", !.self = opnd[1],
                                !.ret = r.ret, !.bool = TRUE, !.cnt0 = cnt,
                                !.order = r.order]
    /\ cnt' = r.cnt
    /\ UNCHANGED opnd
    /\ UNCHANGED <<mouseVars, hit>>

\* the handlers of opnd tried in order with the flow! macro; bool tells
\* whether the function returned from one of them
FlowChainCall ==
    LET r == FlowChain(opnd, 1, cnt, <<>>) IN
    /\ cnt < MaxEvals
    /\ res' = [NoAlgCall EXCEPT !.op = "flow_chain", !.self = opnd[1],
                                !.ret = r.ret, !.bool = r.returned, !.cnt0 = cnt,
                                !.order = r.order]
    /\ cnt' = r.cnt
    /\ UNCHANGED opnd
    /\ UNCHANGED <<mouseVars, hit>>

\* the handlers of opnd tried in order with the or_else method
OrElseMethodChainCall ==
    LET r == OrElseMethodChain(opnd, Len(opnd), cnt) IN
    /\ cnt < MaxEvals
    /\ res' = [NoAlgCall EXCEPT !.op = "or_else_method_chain", !.self = opnd[1],
                                !.ret = r.ret, !.bool = TRUE, !.cnt0 = cnt,
                                !.order = r.order]
    /\ cnt' = r.cnt
    /\ UNCHANGED opnd
    /\ UNCHANGED <<mouseVars, hit>>

\* the handlers of opnd, Outcomes, tried in order with the flow_ok! macro
FlowOkChainCall ==
    LET r == FlowOkChain(opnd, 1, cnt, <<>>) IN
    /\ opnd[1].tag = "Outcome"
    /\ cnt < MaxEvals
    /\ res' = [NoAlgCall EXCEPT !.op = "flow_ok_chain", !.self = opnd[1],
                                !.ret = r.ret, !.bool = r.returned, !.cnt0 = cnt,
                                !.order = r.order]
    /\ cnt' = r.cnt
    /\ UNCHANGED opnd
    /\ UNCHANGED <<mouseVars, hit>>

\* flow!(opnd[1], consider opnd[2]) on Outcomes, the handler already called
FlowConsiderCall ==
    LET r == flow_consider(opnd[1], opnd[2]) IN
    /\ opnd[1].tag = "Outcome"
    /\ res' = [NoAlgCall EXCEPT !.op = "flow_consider", !.self = opnd[1], !.f = opnd[2],
                                !.ret = r.ret, !.bool = r.returned, !.cnt0 = cnt]
    /\ UNCHANGED <<opnd, cnt>>
    /\ UNCHANGED <<mouseVars, hit>>

\* flow_ok!(opnd[1], consider opnd[2]) on Outcomes, the handler already called
FlowOkConsiderCall ==
    LET r == flow_ok_consider(opnd[1], opnd[2]) IN
    /\ opnd[1].tag = "Outcome"
    /\ res' = [NoAlgCall EXCEPT !.op = "flow_ok_consider", !.self = opnd[1],
                                !.f = opnd[2], !.ret = r.ret, !.bool = r.returned,
                                !.cnt0 = cnt]
    /\ UNCHANGED <<opnd, cnt>>
    /\ UNCHANGED <<mouseVars, hit>>

NextAlg ==
    \/ IsConsumedCall
    \/ OrElseCall
    \/ OrElseChainCall
    \/ OrElseMethodChainCall
    \/ FlowChainCall
    \/ FlowOkChainCall
    \/ FlowConsiderCall
    \/ FlowOkConsiderCall
    \/ CmpCall
    \/ ThenCall
    \/ ThenAllCall

\* the algebra's operations applied to handler results drawn at the start
SpecAlg == InitAlg /\ [][NextAlg]_vars

----------------------------------------------------------------------------
(* Hit testing: row_at_clicked, column_at_clicked, row_at_drag,            *)
(* column_at_drag.                                                         *)

\* positions handed to the hit tests range over 0..MaxPos
MaxPos == 10
\* the hit tests are given at most MaxAreas rectangles
MaxAreas == 2

\* Rect::left, Rect::right, Rect::top, Rect::bottom
left(r) == r.x
right(r) == r.x + r.width
top(r) == r.y
bottom(r) == r.y + r.height

\* the rectangles of a widget's items, and the rectangles around them
ItemRects == {Rect(p, p, n, n) : p \in {2, 5}, n \in {1, 3}}
Encompassing == {Rect(2, 2, 6, 6), Rect(1, 1, 3, 3)}

\* Result<usize, isize>
HitOk(i) == [ok |-> TRUE, val |-> i]
HitErr(n) == [ok |-> FALSE, val |-> n]

\* the first i in from..Len(areas) whose rows hold y_pos, 0 if there is none
RECURSIVE RowScan(_, _, _)
RowScan(areas, from, y_pos) ==
    IF from > Len(areas) THEN 0
    ELSE IF y_pos >= top(areas[from]) /\ y_pos < bottom(areas[from]) THEN from
    ELSE RowScan(areas, from + 1, y_pos)

\* row_at_clicked: Some(index from 0) or None
row_at_clicked(areas, y_pos) ==
    LET i == RowScan(areas, 1, y_pos) IN
    IF i > 0 THEN [some |-> TRUE, val |-> i - 1] ELSE [some |-> FALSE, val |-> 0]

\* the first i in from..Len(areas) whose columns hold x_pos, 0 if there is none
RECURSIVE ColumnScan(_, _, _)
ColumnScan(areas, from, x_pos) ==
    IF from > Len(areas) THEN 0
    ELSE IF x_pos >= left(areas[from]) /\ x_pos < right(areas[from]) THEN from
    ELSE ColumnScan(areas, from + 1, x_pos)

\* column_at_clicked: Some(index from 0) or None
column_at_clicked(areas, x_pos) ==
    LET i == ColumnScan(areas, 1, x_pos) IN
    IF i > 0 THEN [some |-> TRUE, val |-> i - 1] ELSE [some |-> FALSE, val |-> 0]

\* row_at_drag measuring from the last rectangle's bottom without the + 1
row_at_drag_NoPlusOne(encompassing, areas, y_pos) ==
    LET row == row_at_clicked(areas, y_pos) IN
    IF row.some THEN HitOk(row.val)
    ELSE IF y_pos < top(encompassing) THEN HitErr(y_pos - top(encompassing))
    ELSE IF Len(areas) > 0 THEN HitErr(y_pos - bottom(areas[Len(areas)]))
    ELSE HitErr(y_pos - top(encompassing))

\* row_at_drag
row_at_drag(encompassing, areas, y_pos) ==
    LET row == row_at_clicked(areas, y_pos) IN
    IF row.some THEN HitOk(row.val)
    ELSE IF y_pos < top(encompassing) THEN HitErr(y_pos - top(encompassing))
    ELSE IF Len(areas) > 0 THEN HitErr(y_pos - bottom(areas[Len(areas)]) + 1)
    ELSE HitErr(y_pos - top(encompassing))

\* column_at_drag
column_at_drag(encompassing, areas, x_pos) ==
    LET column == column_at_clicked(areas, x_pos) IN
    IF column.some THEN HitOk(column.val)
    ELSE IF x_pos < left(encompassing) THEN HitErr(x_pos - left(encompassing))
    ELSE IF Len(areas) > 0 THEN HitErr(x_pos - right(areas[Len(areas)]) + 1)
    ELSE HitErr(x_pos - left(encompassing))

InitHit ==
    /\ flags = DefaultFlags
    /\ area = Rect(1, 1, 1, 1)
    /\ filter = {}
    /\ last = NoCall
    /\ ctl = "none"
    /\ log = <<>>
    /\ dc = NoClickHist
    /\ solo = NoSolo
    /\ opnd = <<>>
    /\ cnt = 0
    /\ res = NoAlgCall
    /\ \E e \in Encompassing, n \in 0..MaxAreas, p \in 0..MaxPos :
          \E as \in [1..n -> ItemRects] :
              hit = [NoHit EXCEPT !.encompassing = e, !.areas = as, !.pos = p]

\* row_at_drag(encompassing, &areas, pos)
RowAtDragCall ==
    /\ hit' = [hit EXCEPT !.op = "row_at_drag",
                          !.ret = row_at_drag(hit.encompassing, hit.areas, hit.pos)]
    /\ UNCHANGED <<mouseVars, algVars>>

\* column_at_drag(encompassing, &areas, pos)
ColumnAtDragCall ==
    /\ hit' = [hit EXCEPT !.op = "column_at_drag",
                          !.ret = column_at_drag(hit.encompassing, hit.areas, hit.pos)]
    /\ UNCHANGED <<mouseVars, algVars>>

NextHit ==
    \/ RowAtDragCall
    \/ ColumnAtDragCall

\* the drag hit tests applied to rectangles and a position drawn at the start
SpecHit == InitHit /\ [][NextHit]_vars

----------------------------------------------------------------------------
(* Properties of the gesture recognizer.                                   *)

\* the classes and the return values of the first n fed events
FedClasses(n) == [i \in 1..n |-> log[i].class]
FedReturns(n) == [i \in 1..n |-> log[i].ret]

\* C1: a fresh MouseFlags fed, through doubleclick2, Left-Down inside,
\* Left-Up inside, Left-Down inside, Left-Up inside (modifiers equal to the
\* filter) returns true exactly once, on the fourth call.
C1_DoubleClickOnSecondUp ==
    (Len(log) >= 4 /\ FedClasses(4) = <<"DownIn", "UpIn", "DownIn", "UpIn">>)
        => FedReturns(4) = <<FALSE, FALSE, FALSE, TRUE>>

\* C2: in every state reached by drag2 and doubleclick2 calls, with any
\* events, areas and filters, clack is set only if click is set.
C2_ClackOnlyWithClick == flags.clack => flags.click

\* the first click of a pair is complete: clack (and click) are set
C2_Witness == flags.clack /\ last.op = "doubleclick2" /\ last.kind = "UpLeft"

\* C3: drag2 returns true exactly for a Left-Drag with modifiers equal to the
\* filter while armed; armed means that the latest event among the
\* filter-matching Left-Downs, the Left-Ups and the Moveds was a Left-Down
\* inside the area. Where the drag event itself lies does not matter, and
\* after a Left-Up the next Left-Drag returns false.
C3_DragIffArmed ==
    /\ flags.drag <=> (ctl = "DownIn")
    /\ last.op = "drag2" =>
          (last.ret <=> (last.kind = "DragLeft" /\ last.match /\ ctl = "DownIn"))
    /\ (last.op = "drag2" /\ last.kind = "DragLeft" /\ ctl = "Up") => ~last.ret

\* a drag reported for an event outside the area
C3_Witness ==
    last.op = "drag2" /\ last.kind = "DragLeft" /\ ~last.inside /\ last.ret

\* C4: a fresh MouseFlags fed, through doubleclick2, Left-Down inside,
\* Left-Up inside, Left-Down outside, Left-Up inside (modifiers equal to the
\* filter) returns false four times, and click and clack are both false
\* after the down outside.
C4_InterruptedDoubleClick ==
    (Len(log) >= 4 /\ FedClasses(4) = <<"DownIn", "UpIn", "DownOut", "UpIn">>)
        => /\ FedReturns(4) = <<FALSE, FALSE, FALSE, FALSE>>
           /\ ~log[3].post.click
           /\ ~log[3].post.clack

\* the interrupted sequence has been fed
C4_Witness ==
    Len(log) >= 4 /\ FedClasses(4) = <<"DownIn", "UpIn", "DownOut", "UpIn">>

\* C9 as claimed: a Left-Down whose modifiers differ from the filter disarms:
\* after drag2 the drag flag is false, after doubleclick2 click and clack are.
C9_MismatchedDownDisarms ==
    (last.kind = "DownLeft" /\ ~last.match) =>
        /\ last.op = "drag2" => ~flags.drag
        /\ last.op = "doubleclick2" => (~flags.click /\ ~flags.clack)

\* C9 amended: a Left-Down whose modifiers differ from the filter is ignored,
\* whatever its position and the prior state: drag2 and doubleclick2 return
\* false and leave click, clack and drag as they were.
C9_MismatchedDownIgnored ==
    (last.kind = "DownLeft" /\ ~last.match) => (flags = last.pre /\ ~last.ret)

\* an armed drag that saw a Left-Down with other modifiers
C9_Witness ==
    /\ last.op = "drag2"
    /\ last.kind = "DownLeft"
    /\ ~last.match
    /\ last.pre.drag

C11_OnlyAnUpFires ==
    (last.op = "doubleclick2" /\ last.ret) =>
        /\ last.kind = "UpLeft"
        /\ last.inside
        /\ last.match
        /\ last.pre.click
        /\ last.pre.clack

\* the double-click signal
C11_Witness == last.op = "doubleclick2" /\ last.ret /\ last.kind = "UpLeft"

\* C16 as claimed: whatever click and clack were, any Left-Up outside the
\* area leaves click and clack false, and doubleclick2 returns false.
C16_UpOutsideResets ==
    (last.op = "doubleclick2" /\ last.kind = "UpLeft" /\ ~last.inside) =>
        (~flags.click /\ ~flags.clack /\ ~last.ret)

\* C16 amended: whatever click and clack were, a Left-Up outside the area
\* whose modifiers equal the filter leaves click and clack false, and
\* doubleclick2 returns false.
C16_MatchingUpOutsideResets ==
    (last.op = "doubleclick2" /\ last.kind = "UpLeft" /\ ~last.inside /\ last.match) =>
        (~flags.click /\ ~flags.clack /\ ~last.ret)

\* a completed first click undone by an up outside
C16_Witness ==
    /\ last.op = "doubleclick2"
    /\ last.kind = "UpLeft"
    /\ ~last.inside
    /\ last.match
    /\ last.pre.click
    /\ last.pre.clack

\* C17: a Left-Up or a Moved processed by drag2, wherever it lies and
\* whatever its modifiers, leaves drag false and returns false; an armed drag
\* is disarmed only by such an event or by a filter-matching Left-Down
\* outside the area.
C17_UpOrMoveCancelsDrag ==
    /\ (last.op = "drag2" /\ last.kind \in {"UpLeft", "Moved"})
          => (~flags.drag /\ ~last.ret)
    /\ (last.pre.drag /\ ~flags.drag) =>
          /\ last.op = "drag2"
          /\ \/ last.kind \in {"UpLeft", "Moved"}
             \/ (last.kind = "DownLeft" /\ last.match /\ ~last.inside)

\* an armed drag cancelled by a move outside the area with other modifiers
C17_Witness ==
    /\ last.op = "drag2"
    /\ last.kind = "Moved"
    /\ ~last.inside
    /\ ~last.match
    /\ last.pre.drag

\* C18: drag2 leaves click and clack alone and doubleclick2 leaves drag alone,
\* so under any interleaving each machine has the flags and the return
\* values it has when it is given its own calls alone.
C18_MachinesIndependent ==
    /\ last.op = "drag2" =>
          (flags.click = last.pre.click /\ flags.clack = last.pre.clack)
    /\ last.op = "doubleclick2" => flags.drag = last.pre.drag
    /\ flags.drag = solo.drag.drag
    /\ flags.click = solo.click.click
    /\ flags.clack = solo.click.clack
    /\ last.op # "none" => last.ret = solo.ret

\* a drag cancelled between the two ups of a double click
C18_Witness ==
    /\ last.op = "drag2"
    /\ last.kind = "UpLeft"
    /\ last.pre.drag
    /\ flags.click
    /\ flags.clack

\* C19: right after doubleclick2 returns true click and clack are false; from
\* then until a filter-matching Left-Down inside the area they stay false and
\* doubleclick2 does not return true again, so at least one such Left-Down
\* lies between any two signals.
C19_SignalResets ==
    /\ [](/\ (last.op = "doubleclick2" /\ last.ret) => (~flags.click /\ ~flags.clack)
          /\ dc.sig = "fired" => (~flags.click /\ ~flags.clack))
    /\ [][(dc.sig = "fired" /\ last'.op = "doubleclick2") => ~last'.ret]_vars

\* a further filter-matching Left-Up inside, after the signal and before any down
C19_Witness ==
    /\ dc.sig = "fired"
    /\ last.op = "doubleclick2"
    /\ last.kind = "UpLeft"
    /\ last.inside
    /\ last.match
    /\ ~last.ret

----------------------------------------------------------------------------
(* Properties of the event-consumption algebra.                            *)

\* the rank the specification gives the three outcomes
Rank(o) ==
    CASE o.v = "NotUsed" -> 0
      [] o.v = "Unchanged" -> 1
      [] o.v = "Changed" -> 2

\* C5: or_else is lazy: a consumed receiver is returned and the closure is
\* not evaluated (the side-effect counter is unchanged); for a receiver that
\* is not consumed the closure is evaluated exactly once and its result is
\* returned.
C5_OrElseLazy ==
    res.op = "or_else" =>
        /\ is_consumed(res.self) => (res.ret = res.self /\ cnt = res.cnt0)
        /\ ~is_consumed(res.self) => (res.ret = res.f /\ cnt = res.cnt0 + 1)

\* or_else on a consumed receiver whose closure would have returned another value
C5_Witness ==
    res.op = "or_else" /\ is_consumed(res.self) /\ res.f # res.self

\* C6: Outcome is totally ordered NotUsed < Unchanged < Changed, and
\* a.then(|| b) returns the higher-ranked of a and b.
C6_ThenIsMax ==
    /\ res.op = "cmp" =>
          /\ (res.ord = "Less") <=> (Rank(res.self) < Rank(res.f))
          /\ (res.ord = "Equal") <=> (res.self = res.f)
          /\ (res.ord = "Greater") <=> (Rank(res.self) > Rank(res.f))
    /\ res.op = "then" =>
          /\ res.ret \in {res.self, res.f}
          /\ Rank(res.ret) >= Rank(res.self)
          /\ Rank(res.ret) >= Rank(res.f)

\* then on a receiver that ranks above the closure's result
C6_Witness ==
    res.op = "then" /\ Rank(res.self) > Rank(res.f) /\ res.ret = res.self

\* C7: then has NotUsed as identity on both sides and is associative, so
\* accumulating handler outcomes with then gives the maximum of the
\* sequence whichever way the calls are grouped.
C7_ThenMonoid ==
    /\ res.op = "then" =>
          /\ res.f.v = "NotUsed" => res.ret = res.self
          /\ res.self.v = "NotUsed" => res.ret = res.f
    /\ res.op = "then_all" =>
          /\ res.ret = res.alt
          /\ \E i \in 1..Len(opnd) : res.ret = opnd[i]
          /\ \A i \in 1..Len(opnd) : Rank(opnd[i]) <= Rank(res.ret)

\* three outcomes accumulated, the highest of them neither first nor last
C7_Witness ==
    /\ res.op = "then_all"
    /\ Len(opnd) = 3
    /\ Rank(opnd[2]) > Rank(opnd[1])
    /\ Rank(opnd[2]) > Rank(opnd[3])

\* C8: a Result is consumed if it is an Err, and as its value is if it is an
\* Ok; so or_else on an Err returns that Err without evaluating the fallback,
\* and a chain of handlers tried with or_else! or flow! ends at the first Err:
\* no later handler is invoked and the Err is the chain's result.
C8_ErrIsConsumed ==
    /\ (res.op = "is_consumed" /\ res.self.tag = "Err") => res.bool
    /\ (res.op = "is_consumed" /\ res.self.tag = "Ok")
          => (res.bool <=> (res.self.v # "NotUsed"))
    /\ (res.op = "or_else" /\ res.self.tag = "Err")
          => (res.ret = res.self /\ cnt = res.cnt0)
    /\ res.op \in {"or_else_chain", "flow_chain"} =>
          \A k \in 1..Len(res.order) :
              opnd[res.order[k]].tag = "Err" =>
                  /\ k = Len(res.order)
                  /\ res.ret = opnd[res.order[k]]
                  /\ res.bool

\* a chain whose handler failed while handlers were still waiting behind it
C8_Witness ==
    /\ res.op = "flow_chain"
    /\ Len(res.order) < Len(opnd)
    /\ opnd[res.order[Len(res.order)]].tag = "Err"

\* C12 as claimed: then does not evaluate its closure when the receiver is
\* Changed; the side-effect counter is unchanged.
C12_ThenLazy ==
    (res.op = "then" /\ res.self.v = "Changed") => cnt = res.cnt0

\* C12 amended: then takes its second operand as a closure and evaluates it
\* exactly once on every call, whatever the receiver, Changed included.
C12_ThenEvaluatesOnce ==
    res.op = "then" => cnt = res.cnt0 + 1

\* then on a receiver that is Changed
C12_Witness ==
    res.op = "then" /\ res.self.v = "Changed" /\ res.ret = res.self

\* the first consumed handler of opnd, or the last handler if none is consumed
StopAt ==
    LET consumed == {i \in 1..Len(opnd) : is_consumed(opnd[i])} IN
    IF consumed = {} THEN Len(opnd)
    ELSE CHOOSE i \in consumed : \A j \in consumed : i <= j

\* C13: handlers chained with flow!, flow_ok!, or_else! or or_else are invoked
\* strictly in order, each at most once, up to the first whose result is
\* consumed; that result is the overall result; if none is consumed all are
\* invoked once, flow! falls through and or_else! keeps the last result.
C13_ChainStopsAtFirstConsumed ==
    res.op \in {"or_else_chain", "or_else_method_chain", "flow_chain", "flow_ok_chain"} =>
        /\ res.order = [i \in 1..StopAt |-> i]
        /\ cnt = res.cnt0 + StopAt
        /\ res.op \in {"or_else_chain", "or_else_method_chain"} => res.ret = opnd[StopAt]
        /\ res.op \in {"flow_chain", "flow_ok_chain"} =>
              /\ res.bool <=> is_consumed(opnd[StopAt])
              /\ ~res.bool => res.ret = NoVal
        /\ (res.op = "flow_chain" /\ res.bool) => res.ret = opnd[StopAt]
        /\ (res.op = "flow_ok_chain" /\ res.bool) => res.ret = Ok(opnd[StopAt].v)

\* three handlers, the second consumes the event, the third is not invoked
C13_Witness ==
    /\ res.op = "flow_chain"
    /\ Len(opnd) = 3
    /\ res.order = <<1, 2>>
    /\ res.bool

\* C14: with the consider form, when x is consumed the function returns the
\* higher of x.into() and the focus outcome f (Ok-wrapped by flow_ok!), never
\* lower than either; when x is not consumed the macro does not return.
C14_ConsiderIsMax ==
    /\ res.op \in {"flow_consider", "flow_ok_consider"} =>
          (res.bool <=> res.self.v # "NotUsed")
    /\ (res.op = "flow_consider" /\ res.bool) =>
          /\ res.ret \in {res.self, res.f}
          /\ Rank(res.ret) >= Rank(res.self)
          /\ Rank(res.ret) >= Rank(res.f)
    /\ (res.op = "flow_ok_consider" /\ res.bool) =>
          /\ res.ret \in {Ok(res.self.v), Ok(res.f.v)}
          /\ Rank(res.ret) >= Rank(res.self)
          /\ Rank(res.ret) >= Rank(res.f)
    /\ (res.op \in {"flow_consider", "flow_ok_consider"} /\ ~res.bool) => res.ret = NoVal

\* an unchanged outcome lifted by a focus change
C14_Witness ==
    /\ res.op = "flow_consider"
    /\ res.self.v = "Unchanged"
    /\ res.f.v = "Changed"
    /\ res.ret.v = "Changed"

----------------------------------------------------------------------------
(* Properties of the hit tests.                                            *)

\* the near and the far edge of a rectangle along the axis of the last call
NearEdge(r) == IF hit.op = "row_at_drag" THEN r.y ELSE r.x
FarEdge(r) == IF hit.op = "row_at_drag" THEN r.y + r.height ELSE r.x + r.width

\* the rectangles whose span along that axis holds the position
Holding ==
    {i \in 1..Len(hit.areas) :
        hit.pos >= NearEdge(hit.areas[i]) /\ hit.pos < FarEdge(hit.areas[i])}

\* C15: row_at_drag, and column_at_drag alike, returns Ok(i) for the first
\* rectangle i holding the coordinate; otherwise Err(pos - container top),
\* negative, above the container's top; else Err(pos - last.bottom + 1) if
\* there are rectangles; else Err(pos - container top). With rows 2-4 and
\* 5-7, row 10 gives Err(3); row 0 with the container's top at 2 gives Err(-2).
C15_DragHitTest ==
    hit.op \in {"row_at_drag", "column_at_drag"} =>
        /\ Holding # {} =>
              /\ hit.ret.ok
              /\ hit.ret.val + 1 \in Holding
              /\ \A j \in Holding : hit.ret.val + 1 <= j
        /\ (Holding = {} /\ hit.pos < NearEdge(hit.encompassing)) =>
              /\ hit.ret = [ok |-> FALSE, val |-> hit.pos - NearEdge(hit.encompassing)]
              /\ hit.ret.val < 0
        /\ (Holding = {} /\ hit.pos >= NearEdge(hit.encompassing) /\ hit.areas # <<>>) =>
              hit.ret = [ok |-> FALSE,
                         val |-> hit.pos - FarEdge(hit.areas[Len(hit.areas)]) + 1]
        /\ (Holding = {} /\ hit.pos >= NearEdge(hit.encompassing) /\ hit.areas = <<>>) =>
              hit.ret = [ok |-> FALSE, val |-> hit.pos - NearEdge(hit.encompassing)]
        /\ (hit.op = "row_at_drag" /\ hit.areas = <<Rect(2, 2, 3, 3), Rect(5, 5, 3, 3)>>
                /\ hit.pos = 10) => hit.ret = [ok |-> FALSE, val |-> 3]
        /\ (hit.op = "row_at_drag" /\ Holding = {} /\ hit.encompassing.y = 2 /\ hit.pos = 0)
              => hit.ret = [ok |-> FALSE, val |-> -2]

\* rows 2-4 and 5-7 queried at row 10
C15_Witness ==
    /\ hit.op = "row_at_drag"
    /\ hit.areas = <<Rect(2, 2, 3, 3), Rect(5, 5, 3, 3)>>
    /\ hit.pos = 10
    /\ hit.ret = [ok |-> FALSE, val |-> 3]

====
